---- MODULE Spec2Model ----
(***************************************************************************)
(* Timestamp microservice (src/src/main.rs): GET /api answers with the     *)
(* current time, GET /api/:date with parse_date_or_timestamp of the path   *)
(* segment.  Strings are sequences of one-character strings.  i64 values   *)
(* are kept as sign and decimal magnitude (TLC integers are 32 bits wide), *)
(* so that i64 range, i64 division and i64 to text are all computed on     *)
(* the full 64-bit range.                                                  *)
(***************************************************************************)
EXTENDS Integers, Sequences, FiniteSets, TLC

VARIABLES reqs

vars == <<reqs>>

(***************************************************************************)
(* Bounds of the model.                                                    *)
(***************************************************************************)
\* concurrent requests in flight
MaxRequests == 2
\* month numbers written in generated literals: 0..MaxMonth
MaxMonth == 13
\* day numbers written in generated literals: 0..MaxDay
MaxDay == 32

(***************************************************************************)
(* Characters and digits.                                                  *)
(***************************************************************************)
DigitChars == <<"0", "1", "2", "3", "4", "5", "6", "7", "8", "9">>

DigitMap == [c \in {DigitChars[i] : i \in 1..10} |-> (CHOOSE i \in 1..10 : DigitChars[i] = c) - 1]

\* u8::is_ascii_digit
IsDigit(c) == c \in DOMAIN DigitMap

DigitVal(c) == DigitMap[c]

IsSpace(c) == c = " "

Tail2(s, n) == SubSeq(s, n + 1, Len(s))

StartsWith(s, p) == Len(s) >= Len(p) /\ SubSeq(s, 1, Len(p)) = p

\* str::trim_start
RECURSIVE TrimStart(_)
TrimStart(s) == IF s # <<>> /\ IsSpace(s[1]) THEN TrimStart(Tail(s)) ELSE s

\* u8::to_ascii_lowercase
UpperChars ==
  <<"A", "B", "C", "D", "E", "F", "G", "H", "I", "J", "K", "L", "M",
    "N", "O", "P", "Q", "R", "S", "T", "U", "V", "W", "X", "Y", "Z">>

LowerChars ==
  <<"a", "b", "c", "d", "e", "f", "g", "h", "i", "j", "k", "l", "m",
    "n", "o", "p", "q", "r", "s", "t", "u", "v", "w", "x", "y", "z">>

LowerMap ==
  [c \in {UpperChars[i] : i \in 1..26} |-> LowerChars[CHOOSE i \in 1..26 : UpperChars[i] = c]]

Lower(c) == IF c \in DOMAIN LowerMap THEN LowerMap[c] ELSE c

LowerStr(s) == [i \in 1..Len(s) |-> Lower(s[i])]

(***************************************************************************)
(* Decimal magnitudes: sequences of digits 0..9, most significant first,   *)
(* without leading zeros (zero is <<0>>).                                  *)
(***************************************************************************)
RECURSIVE StripZeros(_)
StripZeros(ds) ==
  IF Len(ds) > 1 /\ ds[1] = 0 THEN StripZeros(Tail(ds)) ELSE ds

RECURSIVE MagOfNat(_)
MagOfNat(n) == IF n < 10 THEN <<n>> ELSE MagOfNat(n \div 10) \o <<n % 10>>

RECURSIVE MagToNat(_)
MagToNat(ds) ==
  IF ds = <<>> THEN 0 ELSE MagToNat(SubSeq(ds, 1, Len(ds) - 1)) * 10 + ds[Len(ds)]

\* a < b on normalised magnitudes
RECURSIVE MagLexLess(_, _)
MagLexLess(a, b) ==
  IF a = <<>> THEN FALSE
  ELSE IF a[1] # b[1] THEN a[1] < b[1]
  ELSE MagLexLess(Tail(a), Tail(b))

MagLess(a, b) ==
  IF Len(a) # Len(b) THEN Len(a) < Len(b) ELSE MagLexLess(a, b)

\* ds * k + carry, k a small natural
RECURSIVE MagMulAdd(_, _, _)
MagMulAdd(ds, k, carry) ==
  IF ds = <<>> THEN (IF carry = 0 THEN <<>> ELSE MagOfNat(carry))
  ELSE LET t == ds[Len(ds)] * k + carry
       IN  MagMulAdd(SubSeq(ds, 1, Len(ds) - 1), k, t \div 10) \o <<t % 10>>

MagMul(ds, k) == StripZeros(MagMulAdd(ds, k, 0))

MagAdd(ds, n) == StripZeros(MagMulAdd(ds, 1, n))

\* ds - borrow, for ds >= borrow
RECURSIVE MagSubRec(_, _)
MagSubRec(ds, borrow) ==
  IF ds = <<>> THEN <<>>
  ELSE LET t == ds[Len(ds)] - borrow
           d == t % 10
       IN  MagSubRec(SubSeq(ds, 1, Len(ds) - 1), (d - t) \div 10) \o <<d>>

MagSub(ds, n) == StripZeros(MagSubRec(ds, n))

\* long division of ds by the small natural k: <<quotient digits, remainder>>
RECURSIVE MagDivRec(_, _, _, _)
MagDivRec(ds, k, rem, q) ==
  IF ds = <<>> THEN <<StripZeros(IF q = <<>> THEN <<0>> ELSE q), rem>>
  ELSE LET t == rem * 10 + ds[1]
       IN  MagDivRec(Tail(ds), k, t % k, q \o <<t \div k>>)

MagDivMod(ds, k) == MagDivRec(ds, k, 0, <<>>)

(***************************************************************************)
(* i64: [neg, mag] with mag a normalised magnitude and no negative zero.   *)
(***************************************************************************)
I64(neg, mag) == [neg |-> neg /\ mag # <<0>>, mag |-> mag]

I64Zero == I64(FALSE, <<0>>)

I64OfInt(n) == IF n < 0 THEN I64(TRUE, MagOfNat(-n)) ELSE I64(FALSE, MagOfNat(n))

\* i64::MAX = 9223372036854775807 and |i64::MIN| = 9223372036854775808
I64MaxMag == <<9, 2, 2, 3, 3, 7, 2, 0, 3, 6, 8, 5, 4, 7, 7, 5, 8, 0, 7>>

I64MinMag == <<9, 2, 2, 3, 3, 7, 2, 0, 3, 6, 8, 5, 4, 7, 7, 5, 8, 0, 8>>

InI64(neg, mag) ==
  IF neg THEN ~MagLess(I64MinMag, mag) ELSE ~MagLess(I64MaxMag, mag)

\* Rust's `/` on i64: the quotient is truncated toward zero
I64DivTrunc(x, k) == I64(x.neg, MagDivMod(x.mag, k)[1])

\* i64::div_euclid and i64::rem_euclid for k > 0: <<quotient, remainder>>
I64DivRemEuclid(x, k) ==
  LET qr == MagDivMod(x.mag, k)
  IN  IF x.neg /\ qr[2] # 0
      THEN <<I64(TRUE, MagAdd(qr[1], 1)), k - qr[2]>>
      ELSE <<I64(x.neg, qr[1]), qr[2]>>

\* x * k for a small natural k
I64Mul(x, k) == I64(x.neg, MagMul(x.mag, k))

\* x + n for a small natural n
I64Add(x, n) ==
  IF ~x.neg THEN I64(FALSE, MagAdd(x.mag, n))
  ELSE IF MagLess(x.mag, MagOfNat(n))
       THEN I64(FALSE, MagOfNat(n - MagToNat(x.mag)))
       ELSE I64(TRUE, MagSub(x.mag, n))

\* i64 as text (Display, and serde_json's number)
I64ToString(x) ==
  (IF x.neg THEN <<"-">> ELSE <<>>) \o [i \in 1..Len(x.mag) |-> DigitChars[x.mag[i] + 1]]

\* I64Parse without the overflow check: any digit string is taken
I64ParseUnchecked(s) ==
  LET signed == s # <<>> /\ s[1] \in {"+", "-"}
      neg    == s # <<>> /\ s[1] = "-"
      body   == IF signed THEN Tail(s) ELSE s
      mag    == StripZeros([i \in 1..Len(body) |-> DigitVal(body[i])])
  IN  IF body = <<>> \/ \E i \in 1..Len(body) : ~IsDigit(body[i])
      THEN [ok |-> FALSE]
      ELSE [ok |-> TRUE, v |-> I64(neg, mag)]

\* str::parse::<i64>: an optional single sign, then one or more ASCII
\* digits and nothing else; Err on overflow of the i64 range
I64Parse(s) ==
  LET signed == s # <<>> /\ s[1] \in {"+", "-"}
      neg    == s # <<>> /\ s[1] = "-"
      body   == IF signed THEN Tail(s) ELSE s
      mag    == StripZeros([i \in 1..Len(body) |-> DigitVal(body[i])])
  IN  IF body = <<>> \/ \E i \in 1..Len(body) : ~IsDigit(body[i])
      THEN [ok |-> FALSE]
      ELSE IF ~InI64(neg, mag) THEN [ok |-> FALSE]
      ELSE [ok |-> TRUE, v |-> I64(neg, mag)]

(***************************************************************************)
(* chrono: calendar dates, date-times and their rendering.                 *)
(***************************************************************************)
\* NaiveDate::MAX and NaiveDate::MIN are the last day of MAX_YEAR and the
\* first day of MIN_YEAR
MAX_YEAR == 262142

MIN_YEAR == -262143

IsLeap(y) == y % 4 = 0 /\ (y % 100 # 0 \/ y % 400 = 0)

DaysInMonth(y, m) ==
  CASE m = 2 -> (IF IsLeap(y) THEN 29 ELSE 28)
    [] m \in {4, 6, 9, 11} -> 30
    [] OTHER -> 31

\* Option<T>: <<>> is None, <<v>> is Some(v)
None == <<>>

Some(v) == <<v>>

\* NaiveDate::from_ymd_opt
from_ymd_opt(y, m, d) ==
  IF y >= MIN_YEAR /\ y <= MAX_YEAR /\ m \in 1..12 /\ d >= 1 /\ d <= DaysInMonth(y, m)
  THEN Some([y |-> y, m |-> m, d |-> d])
  ELSE None

\* DaysFromCivil without the century rule: every fourth year is a leap year
DaysFromCivilJulian(date) ==
  LET y   == IF date.m <= 2 THEN date.y - 1 ELSE date.y
      era == y \div 400
      yoe == y - era * 400
      mp  == IF date.m > 2 THEN date.m - 3 ELSE date.m + 9
      doy == (153 * mp + 2) \div 5 + date.d - 1
      doe == yoe * 365 + yoe \div 4 + doy
  IN  era * 146097 + doe - 719468

\* days from 1970-01-01 to the date (proleptic Gregorian)
DaysFromCivil(date) ==
  LET y   == IF date.m <= 2 THEN date.y - 1 ELSE date.y
      era == y \div 400
      yoe == y - era * 400
      mp  == IF date.m > 2 THEN date.m - 3 ELSE date.m + 9
      doy == (153 * mp + 2) \div 5 + date.d - 1
      doe == yoe * 365 + yoe \div 4 - yoe \div 100 + doy
  IN  era * 146097 + doe - 719468

\* the date that lies z days after 1970-01-01
CivilFromDays(z) ==
  LET z1  == z + 719468
      era == z1 \div 146097
      doe == z1 - era * 146097
      yoe == (doe - doe \div 1460 + doe \div 36524 - doe \div 146096) \div 365
      doy == doe - (365 * yoe + yoe \div 4 - yoe \div 100)
      mp  == (5 * doy + 2) \div 153
      d   == doy - (153 * mp + 2) \div 5 + 1
      m   == IF mp < 10 THEN mp + 3 ELSE mp - 9
      y   == yoe + era * 400
  IN  [y |-> IF m <= 2 THEN y + 1 ELSE y, m |-> m, d |-> d]

\* Datelike::weekday, 0 = Sunday .. 6 = Saturday
WeekdayOf(date) == (DaysFromCivil(date) + 4) % 7

\* NaiveDate::and_hms_opt followed by and_utc: a DateTime<Utc> is a
\* calendar date, the second of the day and the millisecond of the second
and_hms_opt(date, h, mi, s) ==
  IF h \in 0..23 /\ mi \in 0..59 /\ s \in 0..59
  THEN Some([date |-> date, secs |-> h * 3600 + mi * 60 + s, ms |-> 0])
  ELSE None

\* DateTime::<Utc>::from_timestamp(secs, 0): None when the day does not
\* fit an i32 or lies outside NaiveDate::MIN..=NaiveDate::MAX
from_timestamp(secs) ==
  LET qr   == I64DivRemEuclid(secs, 86400)
      days == IF qr[1].neg THEN -MagToNat(qr[1].mag) ELSE MagToNat(qr[1].mag)
  IN  IF Len(qr[1].mag) > 9 THEN None
      ELSE IF days > DaysFromCivil([y |-> MAX_YEAR, m |-> 12, d |-> 31]) THEN None
      ELSE IF days < DaysFromCivil([y |-> MIN_YEAR, m |-> 1, d |-> 1]) THEN None
      ELSE Some([date |-> CivilFromDays(days), secs |-> qr[2], ms |-> 0])

\* DateTime::timestamp: seconds since the epoch, as i64
timestamp(dt) == I64Add(I64Mul(I64OfInt(DaysFromCivil(dt.date)), 86400), dt.secs)

\* DateTime::timestamp_millis
timestamp_millis(dt) == I64Add(I64Mul(timestamp(dt), 1000), dt.ms)

ShortWeekdays ==
  << <<"S", "u", "n">>, <<"M", "o", "n">>, <<"T", "u", "e">>, <<"W", "e", "d">>,
     <<"T", "h", "u">>, <<"F", "r", "i">>, <<"S", "a", "t">> >>

ShortMonths ==
  << <<"J", "a", "n">>, <<"F", "e", "b">>, <<"M", "a", "r">>, <<"A", "p", "r">>,
     <<"M", "a", "y">>, <<"J", "u", "n">>, <<"J", "u", "l">>, <<"A", "u", "g">>,
     <<"S", "e", "p">>, <<"O", "c", "t">>, <<"N", "o", "v">>, <<"D", "e", "c">> >>

\* what follows the short name in the long month name
LongMonthSuffixes ==
  << <<"u", "a", "r", "y">>, <<"r", "u", "a", "r", "y">>, <<"c", "h">>, <<"i", "l">>,
     <<>>, <<"e">>, <<"y">>, <<"u", "s", "t">>,
     <<"t", "e", "m", "b", "e", "r">>, <<"o", "b", "e", "r">>,
     <<"e", "m", "b", "e", "r">>, <<"e", "m", "b", "e", "r">> >>

Pad2(n) == <<DigitChars[(n \div 10) + 1], DigitChars[(n % 10) + 1]>>

DigitString(mag) == [i \in 1..Len(mag) |-> DigitChars[mag[i] + 1]]

RECURSIVE ZeroPad(_, _)
ZeroPad(s, w) == IF Len(s) >= w THEN s ELSE ZeroPad(<<"0">> \o s, w)

\* %Y: four digits for the years 0..9999, otherwise a sign and at least
\* four digits
FormatYear(y) ==
  IF y >= 0 /\ y <= 9999 THEN ZeroPad(DigitString(MagOfNat(y)), 4)
  ELSE IF y < 0 THEN <<"-">> \o ZeroPad(DigitString(MagOfNat(-y)), 4)
  ELSE <<"+">> \o ZeroPad(DigitString(MagOfNat(y)), 4)

\* with_timezone(FixedOffset::east_opt(0)) then
\* format("%a, %d %b %Y %H:%M:%S GMT").to_string()
format(dt) ==
  ShortWeekdays[WeekdayOf(dt.date) + 1] \o <<",", " ">> \o Pad2(dt.date.d) \o <<" ">>
    \o ShortMonths[dt.date.m] \o <<" ">> \o FormatYear(dt.date.y) \o <<" ">>
    \o Pad2(dt.secs \div 3600) \o <<":">> \o Pad2((dt.secs \div 60) % 60) \o <<":">>
    \o Pad2(dt.secs % 60) \o <<" ", "G", "M", "T">>

(***************************************************************************)
(* chrono::format::parse: a format is a sequence of items, an input is     *)
(* consumed item by item into the fields of Parsed.                        *)
(***************************************************************************)
Lit(s) == [k |-> "lit", a |-> s]

Sp == [k |-> "sp", a |-> <<>>]

Num(f) == [k |-> "num", a |-> <<f>>]

Fix(f) == [k |-> "fix", a |-> <<f>>]

Fail == [ok |-> FALSE]

\* the leading ASCII digits of s, at most max of them
RECURSIVE LeadingDigits(_, _)
LeadingDigits(s, max) ==
  IF s = <<>> \/ max = 0 \/ ~IsDigit(s[1]) THEN 0
  ELSE 1 + LeadingDigits(Tail(s), max - 1)

\* scan::number(s, 1, max): one to max digits; a value beyond nine digits
\* is out of the range of every field that is scanned without a width
ScanNumber(s, max) ==
  LET n   == LeadingDigits(s, max)
      mag == StripZeros([i \in 1..n |-> DigitVal(s[i])])
  IN  IF n = 0 \/ Len(mag) > 9 THEN Fail
      ELSE [ok |-> TRUE, v |-> MagToNat(mag), s |-> Tail2(s, n)]

\* a numeric item: leading white space is skipped; %Y takes up to four
\* digits, or any number of digits after an explicit sign; every other
\* numeric item used here takes up to two digits
ScanNumeric(f, s0) ==
  LET s == TrimStart(s0)
  IN  IF f = "Y" /\ s # <<>> /\ s[1] \in {"+", "-"}
      THEN LET r == ScanNumber(Tail(s), Len(s))
           IN  IF ~r.ok THEN Fail
               ELSE [r EXCEPT !.v = IF s[1] = "-" THEN -r.v ELSE r.v]
      ELSE ScanNumber(s, IF f = "Y" THEN 4 ELSE 2)

\* Parsed::set_year, set_month, set_day, set_hour, set_minute, set_second:
\* a value outside the field's range is refused (chrono 0.4 as of the
\* release that has DateTime::from_timestamp; the Cargo.lock is not part
\* of the sources)
FieldInRange(f, v) ==
  CASE f = "Y" -> TRUE
    [] f = "m" -> v \in 1..12
    [] f = "d" -> v \in 1..31
    [] f = "H" -> v \in 0..23
    [] f = "M" -> v \in 0..59
    [] f = "S" -> v \in 0..60

SetField(p, f, v) ==
  CASE f = "Y" -> [p EXCEPT !.year = Some(v)]
    [] f = "m" -> [p EXCEPT !.month = Some(v)]
    [] f = "d" -> [p EXCEPT !.day = Some(v)]
    [] f = "a" -> [p EXCEPT !.weekday = Some(v)]
    [] OTHER -> p

\* the names as scan::short_month0 and scan::short_weekday compare them
LowerShortMonths == [i \in 1..12 |-> LowerStr(ShortMonths[i])]

LowerShortWeekdays == [i \in 1..7 |-> LowerStr(ShortWeekdays[i])]

\* scan::short_month0 / scan::short_weekday: three letters, in any case
ScanName(s, names) ==
  IF Len(s) < 3 THEN Fail
  ELSE LET w == LowerStr(SubSeq(s, 1, 3))
       IN  IF \E i \in 1..Len(names) : names[i] = w
           THEN [ok |-> TRUE, v |-> CHOOSE i \in 1..Len(names) : names[i] = w,
                 s |-> Tail2(s, 3)]
           ELSE Fail

\* scan::short_or_long_month0: the rest of the long name is taken if it is there
ScanLongMonth(s) ==
  LET r == ScanName(s, LowerShortMonths)
  IN  IF ~r.ok THEN Fail
      ELSE LET suffix == LongMonthSuffixes[r.v]
           IN  IF StartsWith(LowerStr(r.s), suffix)
               THEN [r EXCEPT !.s = Tail2(r.s, Len(suffix))]
               ELSE r

RECURSIVE SkipDigits(_)
SkipDigits(s) == IF s # <<>> /\ IsDigit(s[1]) THEN SkipDigits(Tail(s)) ELSE s

RECURSIVE SkipNonSpace(_)
SkipNonSpace(s) == IF s # <<>> /\ ~IsSpace(s[1]) THEN SkipNonSpace(Tail(s)) ELSE s

RECURSIVE SkipColonOrSpace(_)
SkipColonOrSpace(s) ==
  IF s # <<>> /\ (s[1] = ":" \/ IsSpace(s[1])) THEN SkipColonOrSpace(Tail(s)) ELSE s

\* %.f: optional; after a dot, one or more digits
ScanFraction(s) ==
  IF s # <<>> /\ s[1] = "."
  THEN IF LeadingDigits(Tail(s), 9) = 0 THEN Fail
       ELSE [ok |-> TRUE, v |-> 0, s |-> SkipDigits(Tail(s))]
  ELSE [ok |-> TRUE, v |-> 0, s |-> s]

\* scan::timezone_offset: a sign, two digits of hours, colons or spaces,
\* two digits of minutes 00..59; the minutes may be missing at the end of
\* the input for %z but not for %:z
ScanOffset(s0, allow_missing_minutes) ==
  LET s == TrimStart(s0)
  IN  IF s = <<>> \/ s[1] \notin {"+", "-"} THEN Fail
      ELSE LET h == Tail(s)
           IN  IF Len(h) < 2 \/ ~IsDigit(h[1]) \/ ~IsDigit(h[2]) THEN Fail
               ELSE LET m == SkipColonOrSpace(Tail2(h, 2))
                    IN  IF Len(m) >= 2
                        THEN IF IsDigit(m[1]) /\ IsDigit(m[2]) /\ DigitVal(m[1]) <= 5
                             THEN [ok |-> TRUE, v |-> 0, s |-> Tail2(m, 2)]
                             ELSE Fail
                        ELSE IF allow_missing_minutes /\ m = <<>>
                             THEN [ok |-> TRUE, v |-> 0, s |-> m]
                             ELSE Fail

\* one item of parse_internal: the rest of the input and the fields set
ParseItem(item, s, p) ==
  CASE item.k = "lit" ->
         IF StartsWith(s, item.a) THEN [ok |-> TRUE, s |-> Tail2(s, Len(item.a)), p |-> p]
         ELSE Fail
    [] item.k = "sp" -> [ok |-> TRUE, s |-> TrimStart(s), p |-> p]
    [] item.k = "num" ->
         LET r == ScanNumeric(item.a[1], s)
         IN  IF r.ok /\ FieldInRange(item.a[1], r.v)
             THEN [ok |-> TRUE, s |-> r.s, p |-> SetField(p, item.a[1], r.v)]
             ELSE Fail
    [] item.k = "fix" ->
         LET f == item.a[1]
             r == CASE f = "a" -> ScanName(s, LowerShortWeekdays)
                    [] f = "b" -> ScanName(s, LowerShortMonths)
                    [] f = "B" -> ScanLongMonth(s)
                    [] f = ".f" -> ScanFraction(s)
                    [] f = "z" -> ScanOffset(s, TRUE)
                    [] f = ":z" -> ScanOffset(s, FALSE)
                    [] f = "Z" -> [ok |-> TRUE, v |-> 0, s |-> SkipNonSpace(s)]
         IN  IF ~r.ok THEN Fail
             ELSE [ok |-> TRUE, s |-> r.s,
                   p |-> SetField(p, IF f \in {"b", "B"} THEN "m" ELSE f,
                                  IF f = "a" THEN r.v - 1 ELSE r.v)]

RECURSIVE ParseItems(_, _, _)
ParseItems(items, s, p) ==
  IF items = <<>> THEN (IF s = <<>> THEN [ok |-> TRUE, p |-> p] ELSE Fail)
  ELSE LET r == ParseItem(items[1], s, p)
       IN  IF r.ok THEN ParseItems(Tail(items), r.s, r.p) ELSE Fail

\* Parsed::new
NewParsed == [year |-> None, month |-> None, day |-> None, weekday |-> None]

\* Parsed::to_naive_date: year, month and day must name a date, and a
\* weekday that was parsed must be the weekday of that date
to_naive_date(p) ==
  IF p.year = None \/ p.month = None \/ p.day = None THEN None
  ELSE LET date == from_ymd_opt(p.year[1], p.month[1], p.day[1])
       IN  IF date = None THEN None
           ELSE IF p.weekday # None /\ p.weekday[1] # WeekdayOf(date[1]) THEN None
           ELSE date

\* NaiveDate::parse_from_str(s, fmt): Some(date) or None for any error
parse_from_str(s, fmt) ==
  LET r == ParseItems(fmt, s, NewParsed)
  IN  IF r.ok THEN to_naive_date(r.p) ELSE None

(***************************************************************************)
(* The ten date formats of parse_date_or_timestamp, in the order of the    *)
(* or_else chain.                                                          *)
(***************************************************************************)
\* "%Y-%m-%d"
FmtYmd == <<Num("Y"), Lit(<<"-">>), Num("m"), Lit(<<"-">>), Num("d")>>

\* "%H:%M:%S"
FmtHms == <<Num("H"), Lit(<<":">>), Num("M"), Lit(<<":">>), Num("S")>>

\* "%a %b %d %Y %H:%M:%S "
FmtDowHead ==
  <<Fix("a"), Sp, Fix("b"), Sp, Num("d"), Sp, Num("Y"), Sp>> \o FmtHms \o <<Sp>>

\* " (%Z)"
FmtZoneTail == <<Sp, Lit(<<"(">>), Fix("Z"), Lit(<<")">>)>>

Formats ==
  << FmtYmd,
     FmtYmd \o <<Lit(<<"T">>)>> \o FmtHms,
     FmtYmd \o <<Lit(<<"T">>)>> \o FmtHms \o <<Fix(".f")>>,
     FmtYmd \o <<Lit(<<"T">>)>> \o FmtHms \o <<Fix(".f"), Lit(<<"Z">>)>>,
     FmtYmd \o <<Lit(<<"T">>)>> \o FmtHms \o <<Fix(".f"), Fix(":z")>>,
     <<Num("d"), Sp, Fix("B"), Sp, Num("Y"), Lit(<<",">>), Sp, Fix("Z")>>,
     FmtDowHead \o <<Lit(<<"G", "M", "T">>), Fix("z")>>,
     FmtDowHead \o <<Fix("z")>>,
     FmtDowHead \o <<Lit(<<"G", "M", "T">>), Fix(":z")>> \o FmtZoneTail,
     FmtDowHead \o <<Fix(":z")>> \o FmtZoneTail >>

\* OrElseFrom with the chain built the wrong way round: a later format
\* that parses the input wins over an earlier one
RECURSIVE OrElseFromLast(_, _)
OrElseFromLast(date, i) ==
  IF i > Len(Formats) THEN [ok |-> FALSE, pat |-> i]
  ELSE LET rest == OrElseFromLast(date, i + 1)
           r    == parse_from_str(date, Formats[i])
       IN  IF rest.ok THEN rest
           ELSE IF r # None THEN [ok |-> TRUE, date |-> r[1], pat |-> i]
           ELSE [ok |-> FALSE, pat |-> Len(Formats) + 1]

\* a.or_else(|_| b).or_else(|_| c)...: the result of the first format, from
\* the i-th on, that parses the input, with its position in the chain
RECURSIVE OrElseFrom(_, _)
OrElseFrom(date, i) ==
  IF i > Len(Formats) THEN [ok |-> FALSE, pat |-> i]
  ELSE LET r == parse_from_str(date, Formats[i])
       IN  IF r # None THEN [ok |-> TRUE, date |-> r[1], pat |-> i]
           ELSE OrElseFrom(date, i + 1)

OrElseChain(date) == OrElseFrom(date, 1)

\* TimestampArm without the division: the input is taken as seconds
TimestampArmSeconds(secs) ==
  LET dt == from_timestamp(secs)
  IN  IF dt = None THEN [kind |-> "panic", pat |-> 0]
      ELSE [kind |-> "ok", unix |-> secs, utc |-> format(dt[1]), pat |-> 0]

\* the integer arm: secs / 1000, from_timestamp(..).unwrap(), format
TimestampArm(secs) ==
  LET dt == from_timestamp(I64DivTrunc(secs, 1000))
  IN  IF dt = None THEN [kind |-> "panic", pat |-> 0]
      ELSE [kind |-> "ok", unix |-> secs, utc |-> format(dt[1]), pat |-> 0]

\* DateArm with noon in place of midnight
DateArmNoon(r) ==
  IF ~r.ok THEN [kind |-> "err", msg |-> "Invalid Date", pat |-> r.pat]
  ELSE LET dt == and_hms_opt(r.date, 12, 0, 0)
       IN  IF dt = None THEN [kind |-> "panic", pat |-> r.pat]
           ELSE [kind |-> "ok", unix |-> timestamp_millis(dt[1]),
                 utc |-> format(dt[1]), pat |-> r.pat]

\* the date arm: midnight of the parsed date
DateArm(r) ==
  IF ~r.ok THEN [kind |-> "err", msg |-> "Invalid Date", pat |-> r.pat]
  ELSE LET dt == and_hms_opt(r.date, 0, 0, 0)
       IN  IF dt = None THEN [kind |-> "panic", pat |-> r.pat]
           ELSE [kind |-> "ok", unix |-> timestamp_millis(dt[1]),
                 utc |-> format(dt[1]), pat |-> r.pat]

\* fn parse_date_or_timestamp(date: String) -> anyhow::Result<Response>:
\* kind is "ok" (Ok(Response)), "err" (Err) or "panic" (an unwrap of None);
\* pat records the arm that produced the result (0: the integer arm)
parse_date_or_timestamp(date) ==
  LET n == I64Parse(date)
  IN  IF n.ok THEN TimestampArm(n.v) ELSE DateArm(OrElseChain(date))

\* DateReply with the error arm answering a default Response
DateReplyDefault(res) ==
  CASE res.kind = "ok" -> [status |-> "json", body |-> [unix |-> res.unix, utc |-> res.utc]]
    [] res.kind = "err" -> [status |-> "json", body |-> [unix |-> I64Zero, utc |-> <<>>]]
    [] OTHER -> [status |-> "aborted", body |-> [aborted |-> TRUE]]

\* what date_handler sends for a result of parse_date_or_timestamp
DateReply(res) ==
  CASE res.kind = "ok" -> [status |-> "json", body |-> [unix |-> res.unix, utc |-> res.utc]]
    [] res.kind = "err" -> [status |-> "json", body |-> [error |-> "Invalid Date"]]
    [] OTHER -> [status |-> "aborted", body |-> [aborted |-> TRUE]]

\* what now_handler sends when Utc::now() is the instant now
NowReply(now) ==
  [status |-> "json", body |-> [unix |-> timestamp_millis(now), utc |-> format(now)]]

(***************************************************************************)
(* The inputs: path segments (after URL decoding) and clock readings; the  *)
(* empty string stands for parse_date_or_timestamp called with "".         *)
(* An input carries, beside its text, how its literal was written: lit.pat *)
(* is the format it was written in (0 for text that is no date literal)    *)
(* and lit.y, lit.m, lit.d the year, month and day written in it.          *)
(***************************************************************************)
NoLit == [pat |-> 0, y |-> 0, m |-> 0, d |-> 0]

In(s, pat, y, m, d) == [s |-> s, lit |-> [pat |-> pat, y |-> y, m |-> m, d |-> d]]

\* decimal magnitudes: small ones, second and day boundaries, the spec's
\* examples, leading zeros, the ends of chrono's and of i64's range, beyond
IntegerMagnitudes ==
  { <<"0">>,
  <<"1">>,
  <<"9", "9", "9">>,
  <<"1", "0", "0", "0">>,
  <<"1", "0", "0", "1">>,
  <<"1", "9", "9", "9">>,
  <<"8", "6", "3", "9", "9", "9", "9", "9">>,
  <<"8", "6", "4", "0", "0", "0", "0", "0">>,
  <<"1", "4", "4", "5", "3", "8", "5", "6", "0", "0", "0", "0", "0">>,
  <<"1", "4", "4", "5", "4", "1", "2", "4", "8", "0", "0", "0", "0">>,
  <<"1", "4", "4", "5", "4", "1", "2", "4", "8", "0", "9", "9", "9">>,
  <<"0", "0", "0", "1", "2">>,
  <<"1", "0", "0", "0", "0", "0", "0", "0", "0", "0", "0", "0", "0", "0", "0", "0">>,
  <<"1", "0", "0", "0", "0", "0", "0", "0", "0", "0", "0", "0", "0", "0", "0", "0", "0">>,
  <<"9", "2", "2", "3", "3", "7", "2", "0", "3", "6", "8", "5", "4", "7", "7", "5", "8", "0", "7">>,
  <<"9", "2", "2", "3", "3", "7", "2", "0", "3", "6", "8", "5", "4", "7", "7", "5", "8", "0", "8">>,
  <<"9", "9", "9", "9", "9", "9", "9", "9", "9", "9", "9", "9", "9", "9", "9", "9", "9", "9", "9", "9">> }

Signs == {<<>>, <<"+">>, <<"-">>}

IntegerInputs == {In(sg \o mg, 0, 0, 0, 0) : sg \in Signs, mg \in IntegerMagnitudes}

FreeTextInputs ==
  {In(s, 0, 0, 0, 0) : s \in
  { <<>>,
  <<"n", "o", "t", "-", "a", "-", "d", "a", "t", "e">>,
  <<"t", "h", "i", "s", " ", "i", "s", " ", "n", "o", "t", " ", "a", " ", "d", "a", "t", "e">>,
  <<"+">>,
  <<"-">>,
  <<"1", "2", "a">>,
  <<"1", "e", "3">>,
  <<"0", "x", "1", "0">>,
  <<"2", "0", "1", "5", "-", "1", "0", "-", "2", "1", "x">>,
  <<"2", "0", "1", "5", "/", "1", "0", "/", "2", "1">>,
  <<"2", "0", "1", "5", "1", "0", "2", "1", "T">>,
  <<"Z">>,
  <<"-", "-", "1">>,
  <<" ", "1">>,
  <<"1", " ">> } }

Y4(y) == ZeroPad(DigitString(MagOfNat(y)), 4)

IsoDate(y, m, d) == Y4(y) \o <<"-">> \o Pad2(m) \o <<"-">> \o Pad2(d)

\* a century year that is no leap year, the year before the epoch, a leap
\* century year, a leap year
GridYears == {1900, 1969, 2000, 2016}

\* the first and the last year of YYYY, the epoch's, the examples'
EdgeYears == {0, 1970, 2015, 9999}

\* "YYYY-MM-DD" for every month 0..MaxMonth and day 0..MaxDay of the
\* GridYears, and for the first, a middle and the last days of four months
\* of the EdgeYears
YmdInputs ==
  {In(IsoDate(y, m, d), 1, y, m, d) : y \in GridYears, m \in 0..MaxMonth, d \in 0..MaxDay}
  \cup
  {In(IsoDate(y, m, d), 1, y, m, d) : y \in EdgeYears, m \in {1, 2, 10, 12},
                                      d \in {1, 21, 28, 29, 30, 31}}

\* literals the first format takes although they are not YYYY-MM-DD (a
\* signed year, one-digit fields, white space before a number), and two
\* whose signed year is beyond every date
LooseYmdInputs ==
  { In(<<"+", "2", "0", "1", "5", "-", "1", "0", "-", "2", "1">>, 1, 2015, 10, 21),
    In(<<"-", "0", "0", "0", "1", "-", "0", "1", "-", "0", "1">>, 1, -1, 1, 1),
    In(<<"2", "0", "1", "5", "-", "1", "-", "5">>, 1, 2015, 1, 5),
    In(<<" ", "2", "0", "1", "5", "-", "1", "0", "-", " ", "2", "1">>, 1, 2015, 10, 21),
    In(<<"+", "9", "9", "9", "9", "9", "9", "9", "9", "9", "-", "0", "1", "-", "0", "1">>, 0, 0, 0, 0),
    In(<<"+", "9", "9", "9", "9", "9", "9", "9", "9", "9", "9", "9", "9", "9", "9", "9", "9", "9", "9", "9", "9", "-", "0", "1", "-", "0", "1">>, 0, 0, 0, 0) }

\* dates for the literals with a time: [y, m, d, dow] with dow the weekday
\* of the date (0 = Sunday), among them two days that do not exist
SampleDates ==
  { [y |-> 1969, m |-> 12, d |-> 31, dow |-> 3],
    [y |-> 1970, m |-> 1, d |-> 1, dow |-> 4],
    [y |-> 2015, m |-> 10, d |-> 21, dow |-> 3],
    [y |-> 2016, m |-> 2, d |-> 29, dow |-> 1],
    [y |-> 2015, m |-> 2, d |-> 29, dow |-> 0],
    [y |-> 2015, m |-> 4, d |-> 31, dow |-> 5] }

SampleTimes ==
  { <<"0", "0", ":", "0", "0", ":", "0", "0">>,
    <<"0", "7", ":", "2", "8", ":", "0", "0">>,
    <<"2", "3", ":", "5", "9", ":", "5", "9">>,
    <<"2", "5", ":", "0", "0", ":", "0", "0">> }

SampleTime == <<"0", "7", ":", "2", "8", ":", "0", "0">>

SampleFractions == {<<>>, <<".", "0", "0", "0", "0", "0", "0">>, <<".", "1", "2", "3", "4", "5", "6">>}

\* UTC offsets as [h, m] with the sign in h
SampleOffsets ==
  { [sg |-> "+", h |-> <<"0", "0">>, m |-> <<"0", "0">>],
    [sg |-> "-", h |-> <<"0", "7">>, m |-> <<"0", "0">>],
    [sg |-> "+", h |-> <<"0", "5">>, m |-> <<"3", "0">>] }

SampleZones == {<<"G", "M", "T">>, <<"U", "T", "C">>, <<"P", "D", "T">>}

OffsetColon(o) == <<o.sg>> \o o.h \o <<":">> \o o.m

OffsetPlain(o) == <<o.sg>> \o o.h \o o.m

IsoDateTime(dt, tm) == IsoDate(dt.y, dt.m, dt.d) \o <<"T">> \o tm

\* "Dow Mon DD YYYY HH:MM:SS " with the weekday shifted by skew days
DowHead(dt, skew, tm) ==
  ShortWeekdays[((dt.dow + skew) % 7) + 1] \o <<" ">> \o ShortMonths[dt.m] \o <<" ">>
    \o Pad2(dt.d) \o <<" ">> \o Y4(dt.y) \o <<" ">> \o tm \o <<" ">>

TimedInputs ==
  {In(IsoDateTime(dt, tm) \o fr, IF fr = <<>> THEN 2 ELSE 3, dt.y, dt.m, dt.d) :
      dt \in SampleDates, tm \in SampleTimes, fr \in SampleFractions}
  \cup
  {In(IsoDateTime(dt, tm) \o fr \o <<"Z">>, 4, dt.y, dt.m, dt.d) :
      dt \in SampleDates, tm \in SampleTimes, fr \in SampleFractions}
  \cup
  {In(IsoDateTime(dt, tm) \o fr \o OffsetColon(o), 5, dt.y, dt.m, dt.d) :
      dt \in SampleDates, tm \in SampleTimes, fr \in SampleFractions, o \in SampleOffsets}

NamedInputs ==
  {In(Pad2(dt.d) \o <<" ">> \o ShortMonths[dt.m] \o sfx \o <<" ">> \o Y4(dt.y)
        \o <<",", " ">> \o z, 6, dt.y, dt.m, dt.d) :
      dt \in SampleDates, sfx \in {<<>>} \cup {LongMonthSuffixes[i] : i \in {2, 10, 12}},
      z \in SampleZones \cup {<<>>}}
  \cup
  {In(DowHead(dt, sk, tm) \o <<"G", "M", "T">> \o OffsetPlain(o), 7, dt.y, dt.m, dt.d) :
      dt \in SampleDates, sk \in {0, 1}, tm \in SampleTimes, o \in SampleOffsets}
  \cup
  {In(DowHead(dt, sk, tm) \o OffsetPlain(o), 8, dt.y, dt.m, dt.d) :
      dt \in SampleDates, sk \in {0, 1}, tm \in SampleTimes, o \in SampleOffsets}
  \cup
  {In(DowHead(dt, 0, tm) \o <<"G", "M", "T">> \o OffsetColon(o) \o <<" ", "(">> \o z \o cl,
      9, dt.y, dt.m, dt.d) :
      dt \in SampleDates, tm \in {SampleTime}, o \in SampleOffsets, z \in SampleZones,
      cl \in {<<")">>, <<" ", ")">>, <<>>}}
  \cup
  {In(DowHead(dt, 0, tm) \o OffsetColon(o) \o <<" ", "(">> \o z \o cl,
      10, dt.y, dt.m, dt.d) :
      dt \in SampleDates, tm \in {SampleTime}, o \in SampleOffsets, z \in SampleZones,
      cl \in {<<")">>, <<" ", ")">>, <<>>}}

\* every input of the single-invocation specification
FnInputs ==
  IntegerInputs \cup FreeTextInputs \cup YmdInputs \cup LooseYmdInputs
    \cup TimedInputs \cup NamedInputs

\* the inputs of the concurrent specification: one of each kind
ConcInputs ==
  { In(<<"0">>, 0, 0, 0, 0),
    In(<<"-", "1">>, 0, 0, 0, 0),
    In(<<"1", "4", "4", "5", "4", "1", "2", "4", "8", "0", "0", "0", "0">>, 0, 0, 0, 0),
    In(<<"9", "2", "2", "3", "3", "7", "2", "0", "3", "6", "8", "5", "4", "7", "7", "5", "8", "0", "7">>, 0, 0, 0, 0),
    In(<<"n", "o", "t", "-", "a", "-", "d", "a", "t", "e">>, 0, 0, 0, 0),
    In(IsoDate(2015, 10, 21), 1, 2015, 10, 21),
    In(IsoDate(2015, 13, 1), 1, 2015, 13, 1),
    In(IsoDate(2015, 10, 21) \o <<"T", "0", "7", ":", "2", "8", ":", "0", "0">>, 2, 2015, 10, 21) }

\* readings of Utc::now(), which never lies before the epoch
Clocks ==
  { [date |-> [y |-> 1970, m |-> 1, d |-> 1], secs |-> 0, ms |-> 0],
    [date |-> [y |-> 2015, m |-> 10, d |-> 21], secs |-> 26880, ms |-> 123],
    [date |-> [y |-> 2016, m |-> 2, d |-> 29], secs |-> 86399, ms |-> 999] }

(***************************************************************************)
(* The service: each request is idle, received by the router, or done.     *)
(***************************************************************************)
NoRes == [kind |-> "none", pat |-> 0]

NoReply == [status |-> "none", body |-> [none |-> TRUE]]

Idle ==
  [pc |-> "idle", route |-> "none", input |-> <<>>, lit |-> NoLit,
   res |-> NoRes, reply |-> NoReply, prev |-> NoReply]

Init == reqs = [r \in 1..MaxRequests |-> Idle]

\* GET /api/:date arrives and is routed to date_handler
ReceiveDate(r, in) ==
  /\ reqs[r].pc = "idle"
  /\ reqs' = [reqs EXCEPT ![r] = [Idle EXCEPT !.pc = "received", !.route = "date",
                                               !.input = in.s, !.lit = in.lit]]

\* GET /api arrives and is routed to now_handler
ReceiveNow(r) ==
  /\ reqs[r].pc = "idle"
  /\ reqs' = [reqs EXCEPT ![r] = [Idle EXCEPT !.pc = "received", !.route = "now"]]

\* date_handler reading the path segment from a buffer all requests share
\* (here: the one of request 1)
date_handler_shared(r) ==
  /\ reqs[r].pc = "received"
  /\ reqs[r].route = "date"
  /\ LET res == parse_date_or_timestamp(reqs[1].input)
     IN  reqs' = [reqs EXCEPT ![r].pc = "done", ![r].res = res, ![r].reply = DateReply(res)]

\* async fn date_handler(Path(date)): a panic in parse_date_or_timestamp
\* ends the request's task without a response
date_handler(r) ==
  /\ reqs[r].pc = "received"
  /\ reqs[r].route = "date"
  /\ LET res == parse_date_or_timestamp(reqs[r].input)
     IN  reqs' = [reqs EXCEPT ![r].pc = "done", ![r].res = res, ![r].reply = DateReply(res)]

\* async fn now_handler()
now_handler(r) ==
  /\ reqs[r].pc = "received"
  /\ reqs[r].route = "now"
  /\ \E now \in Clocks :
       reqs' = [reqs EXCEPT ![r].pc = "done", ![r].reply = NowReply(now)]

\* the client sends the unix value of a date reply back as a new request
Resubmit(r) ==
  /\ reqs[r].pc = "done"
  /\ reqs[r].route = "date"
  /\ reqs[r].res.kind = "ok"
  /\ reqs[r].res.pat > 0
  /\ reqs' = [reqs EXCEPT ![r] = [Idle EXCEPT !.pc = "received", !.route = "date",
                                               !.input = I64ToString(reqs[r].res.unix),
                                               !.prev = reqs[r].reply]]

\* the response has been sent (or the connection dropped)
Close(r) ==
  /\ reqs[r].pc = "done"
  /\ reqs' = [reqs EXCEPT ![r] = Idle]

\* the service under concurrent requests
Next ==
  \E r \in 1..MaxRequests :
    \/ \E in \in ConcInputs : ReceiveDate(r, in)
    \/ ReceiveNow(r)
    \/ date_handler(r)
    \/ now_handler(r)
    \/ Resubmit(r)
    \/ Close(r)

Spec == Init /\ [][Next]_vars

\* one request at a time, over every input
NextFn ==
  \/ \E in \in FnInputs : ReceiveDate(1, in)
  \/ ReceiveNow(1)
  \/ date_handler(1)
  \/ now_handler(1)
  \/ Resubmit(1)
  \/ Close(1)

SpecFn == Init /\ [][NextFn]_vars

(***************************************************************************)
(* Reference notions the properties are stated with: the calendar by       *)
(* counting days, and the rendering of the instant a millisecond count     *)
(* denotes.                                                                *)
(***************************************************************************)
RefLeap(y) == (y % 4 = 0 /\ y % 100 # 0) \/ y % 400 = 0

RefCumDays == <<0, 31, 59, 90, 120, 151, 181, 212, 243, 273, 304, 334>>

RefMonthLen == <<31, 28, 31, 30, 31, 30, 31, 31, 30, 31, 30, 31>>

RefIsDate(y, m, d) ==
  /\ m \in 1..12
  /\ d >= 1
  /\ d <= RefMonthLen[m] + (IF m = 2 /\ RefLeap(y) THEN 1 ELSE 0)

\* days from 1970-01-01 to y-m-d, counted from 0001-01-01
RefDays(y, m, d) ==
  365 * (y - 1) + ((y - 1) \div 4) - ((y - 1) \div 100) + ((y - 1) \div 400)
    + RefCumDays[m] + (IF m > 2 /\ RefLeap(y) THEN 1 ELSE 0) + (d - 1) - 719162

\* epoch milliseconds of 00:00:00 UTC on y-m-d
RefMidnightMillis(y, m, d) == I64Mul(I64Mul(I64OfInt(RefDays(y, m, d)), 86400), 1000)

\* the fixed-format rendering of the instant floor(x / 1000) seconds after
\* the epoch (<<>> when chrono has no such date)
RefRender(x) ==
  LET dt == from_timestamp(I64DivRemEuclid(x, 1000)[1])
  IN  IF dt = None THEN <<>> ELSE format(dt[1])

\* the HH:MM:SS part of "Dow, DD Mon YYYY HH:MM:SS GMT"
TimeOfDayText(utc) == SubSeq(utc, Len(utc) - 11, Len(utc) - 4)

Midnight == <<"0", "0", ":", "0", "0", ":", "0", "0">>

InvalidDateReply == [status |-> "json", body |-> [error |-> "Invalid Date"]]

Done(r) == reqs[r].pc = "done"

DateDone(r) == Done(r) /\ reqs[r].route = "date"

\* the reply carries unix and utc
IsTimeReply(reply) == reply.status = "json" /\ DOMAIN reply.body = {"unix", "utc"}

\* the formats that parse the input
Matching(s) == {i \in 1..Len(Formats) : parse_from_str(s, Formats[i]) # None}

(***************************************************************************)
(* The properties.                                                         *)
(***************************************************************************)
\* C1: for every integer n, the decimal string of n is answered with
\* unix = n and utc the rendering of the instant floor(n / 1000) seconds
\* after the epoch, negative n that are no multiple of 1000 included.
C1_IntegerFloorRendering ==
  \A r \in 1..MaxRequests :
    (DateDone(r) /\ I64Parse(reqs[r].input).ok) =>
      /\ reqs[r].res.kind = "ok"
      /\ reqs[r].res.unix = I64Parse(reqs[r].input).v
      /\ reqs[r].res.utc = RefRender(I64Parse(reqs[r].input).v)

\* C2: parse_date_or_timestamp returns Ok or Err for every input and never
\* panics, so that date_handler always sends a JSON response.
C2_NeverPanics ==
  \A r \in 1..MaxRequests :
    DateDone(r) => (reqs[r].res.kind \in {"ok", "err"} /\ reqs[r].reply.status = "json")

\* C3: a valid calendar date written as YYYY-MM-DD is answered with unix
\* the epoch milliseconds of 00:00:00 UTC on that date and with 00:00:00
\* as the time of day of utc.
C3_YmdIsMidnight ==
  \A r \in 1..MaxRequests :
    ( /\ DateDone(r)
      /\ reqs[r].lit.pat = 1
      /\ reqs[r].lit.y \in 0..9999
      /\ reqs[r].input = IsoDate(reqs[r].lit.y, reqs[r].lit.m, reqs[r].lit.d)
      /\ RefIsDate(reqs[r].lit.y, reqs[r].lit.m, reqs[r].lit.d) ) =>
      /\ IsTimeReply(reqs[r].reply)
      /\ reqs[r].reply.body.unix =
           RefMidnightMillis(reqs[r].lit.y, reqs[r].lit.m, reqs[r].lit.d)
      /\ TimeOfDayText(reqs[r].reply.body.utc) = Midnight

\* C3 witness: a date before 1970 has been answered with a negative unix
C3_Witness ==
  \E r \in 1..MaxRequests :
    /\ DateDone(r)
    /\ reqs[r].input = IsoDate(1969, 12, 31)
    /\ IsTimeReply(reqs[r].reply)
    /\ reqs[r].reply.body.unix.neg

\* C4: an input that is no signed integer and that none of the ten formats
\* parses (free text, the empty string, a date that does not exist) is
\* answered with the one error body {"error": "Invalid Date"}, never with
\* unix and utc.
C4_InvalidDate ==
  \A r \in 1..MaxRequests :
    ( /\ DateDone(r)
      /\ ~I64Parse(reqs[r].input).ok
      /\ \/ Matching(reqs[r].input) = {}
         \/ reqs[r].lit.pat = 0
         \/ ~RefIsDate(reqs[r].lit.y, reqs[r].lit.m, reqs[r].lit.d) ) =>
      /\ reqs[r].res.kind = "err"
      /\ reqs[r].res.msg = "Invalid Date"
      /\ reqs[r].reply = InvalidDateReply

\* C4 witness: month 13 has been answered with the error body
C4_Witness ==
  \E r \in 1..MaxRequests :
    /\ DateDone(r)
    /\ reqs[r].input = IsoDate(2016, 13, 1)
    /\ reqs[r].reply = InvalidDateReply

\* C5: in every reply that carries them, utc is the rendering of the
\* instant that unix denotes, for positive and negative unix alike.
C5_SameInstant ==
  \A r \in 1..MaxRequests :
    (Done(r) /\ IsTimeReply(reqs[r].reply)) =>
      reqs[r].reply.body.utc = RefRender(reqs[r].reply.body.unix)

\* C6: an input accepted by one of the formats 2 to 10 is answered with
\* midnight UTC of the year, month and day written in the literal, whatever
\* its time of day, offset and zone name.
C6_TimeDiscarded ==
  \A r \in 1..MaxRequests :
    (DateDone(r) /\ reqs[r].res.kind = "ok" /\ reqs[r].res.pat \in 2..10) =>
      /\ reqs[r].lit.pat = reqs[r].res.pat
      /\ RefIsDate(reqs[r].lit.y, reqs[r].lit.m, reqs[r].lit.d)
      /\ IsTimeReply(reqs[r].reply)
      /\ reqs[r].reply.body.unix =
           RefMidnightMillis(reqs[r].lit.y, reqs[r].lit.m, reqs[r].lit.d)
      /\ TimeOfDayText(reqs[r].reply.body.utc) = Midnight

\* C6 witness: 2015-10-21T23:59:59-07:00, an instant of 22 October in UTC,
\* has been answered
C6_Witness ==
  \E r \in 1..MaxRequests :
    /\ DateDone(r)
    /\ reqs[r].input = IsoDate(2015, 10, 21) \o <<"T", "2", "3", ":", "5", "9", ":", "5", "9", "-", "0", "7", ":", "0", "0">>
    /\ reqs[r].res.kind = "ok"
    /\ reqs[r].res.pat = 5

\* C7: the formats are tried in the listed order after integer parsing has
\* failed, and the first one that parses the input decides the result: the
\* result comes from the least format that parses the input, and from no
\* format at all when the input is an integer.
C7_FirstMatchWins ==
  \A r \in 1..MaxRequests :
    DateDone(r) =>
      IF I64Parse(reqs[r].input).ok THEN reqs[r].res.pat = 0
      ELSE LET ms == Matching(reqs[r].input)
           IN  IF ms = {} THEN reqs[r].res.kind = "err"
               ELSE /\ reqs[r].res.kind = "ok"
                    /\ \A j \in ms : reqs[r].res.pat <= j
                    /\ reqs[r].res.pat \in ms
                    /\ reqs[r].res.unix =
                         timestamp_millis(and_hms_opt(
                           parse_from_str(reqs[r].input, Formats[reqs[r].res.pat])[1],
                           0, 0, 0)[1])

\* C7 witness: an input that two formats parse has been answered by the
\* earlier one
C7_Witness ==
  \E r \in 1..MaxRequests :
    /\ DateDone(r)
    /\ Cardinality(Matching(reqs[r].input)) > 1
    /\ reqs[r].res.pat = 2

\* C8: sending the unix value of a date reply back as the input yields the
\* same utc string and the same unix.
C8_RoundTrip ==
  \A r \in 1..MaxRequests :
    (DateDone(r) /\ reqs[r].prev # NoReply) =>
      (IsTimeReply(reqs[r].reply) /\ reqs[r].reply = reqs[r].prev)

\* C8 witness: the unix of a date before 1970 has made the round trip
C8_Witness ==
  \E r \in 1..MaxRequests :
    /\ DateDone(r)
    /\ reqs[r].prev # NoReply
    /\ IsTimeReply(reqs[r].reply)
    /\ reqs[r].reply.body.unix.neg

\* C9: requests are independent and deterministic: a step of one request
\* changes nothing of any other request, every reply of date_handler is
\* the reply for its own input, and equal inputs have equal replies.
C9_Independent ==
  /\ [](\A r \in 1..MaxRequests :
          DateDone(r) =>
            reqs[r].reply = DateReply(parse_date_or_timestamp(reqs[r].input)))
  /\ [](\A r1, r2 \in 1..MaxRequests :
          (DateDone(r1) /\ DateDone(r2) /\ reqs[r1].input = reqs[r2].input) =>
            reqs[r1].reply = reqs[r2].reply)
  /\ [][\A r1, r2 \in 1..MaxRequests :
          (r1 # r2 /\ reqs'[r1] # reqs[r1]) => reqs'[r2] = reqs[r2]]_vars

\* C9 witness: two requests with the same input have been answered and
\* are in flight at the same time
C9_Witness ==
  \E r1, r2 \in 1..MaxRequests :
    /\ r1 # r2
    /\ DateDone(r1)
    /\ DateDone(r2)
    /\ reqs[r1].input = reqs[r2].input
    /\ IsTimeReply(reqs[r1].reply)
    /\ IsTimeReply(reqs[r2].reply)

\* decimal digits after an optional sign whose value is no i64
BeyondI64(s) ==
  LET body == IF s # <<>> /\ s[1] \in {"+", "-"} THEN Tail(s) ELSE s
  IN  /\ body # <<>>
      /\ \A i \in 1..Len(body) : IsDigit(body[i])
      /\ ~InI64(s[1] = "-", StripZeros([i \in 1..Len(body) |-> DigitVal(body[i])]))

\* C10: a decimal string whose value lies outside the i64 range is answered
\* with Invalid Date and never with a unix value.
C10_BeyondI64IsInvalid ==
  \A r \in 1..MaxRequests :
    (DateDone(r) /\ BeyondI64(reqs[r].input)) =>
      (reqs[r].res.kind = "err" /\ reqs[r].reply = InvalidDateReply)

\* C10 witness: 9223372036854775808 has been answered with the error body
C10_Witness ==
  \E r \in 1..MaxRequests :
    /\ DateDone(r)
    /\ reqs[r].input = <<"9", "2", "2", "3", "3", "7", "2", "0", "3", "6", "8", "5", "4", "7", "7", "5", "8", "0", "8">>
    /\ reqs[r].reply = InvalidDateReply

====
